---- MODULE Spec2Model ----
(***************************************************************************)
(* Model of the component engine of src/src/example.ts: the engine's       *)
(* registry and start(), the per-component ComponentContext (event         *)
(* publish/subscribe, endpoint registration, call/result correlation with  *)
(* timeout) and the EventEmitter channel ('event', 'api-call',             *)
(* 'api-result') they share.                                               *)
(*                                                                         *)
(* One action is one synchronous run of the event loop: a method call made *)
(* by component code, the settling of an endpoint handler's promise, or    *)
(* the expiry of a timer.  Time is not measured: an armed timer may fire   *)
(* at any turn.  Component code, listeners and endpoint handlers are       *)
(* external: a handler either throws synchronously or returns a promise    *)
(* that later resolves with some value or rejects.  uuid() is modelled by  *)
(* the index of the call (always fresh).                                   *)
(***************************************************************************)
EXTENDS Integers, Sequences, FiniteSets, TLC

\* ---- bounds ----
MaxCtx    == 2    \* contexts ever created by use()
MaxStarts == 2    \* calls of engine.start()
MaxCalls  == 2    \* calls of ctx.call()
MaxRetries == 3   \* calls of the notes loop before users has registered getUser
MaxSends  == 2    \* calls of ctx.send()
MaxFrames == 2    \* calls of ctx.call() and ctx.send() together, where both occur

\* ---- input domains ----
Names     == {"notes", "users"}          \* names of registered components
Targets   == {"users", "ghost"}         \* call targets; no component is named "ghost"
Endpoints == {"getUser", "getNote"}
Handlers  == {"h1", "h2"}                \* endpoint handler functions
CallEndpoints == {"getUser"}             \* endpoints used in the call protocol
CallHandlers  == {"h1"}
Sources   == {"users"}                   \* components whose events are subscribed to
Events    == {"ev"}
Listeners == {"l1", "l2"}                \* event listener functions

NoHandler  == "none"
NoError    == "none"
DupError   == "endpoint name is already used."
NotFound   == "endpoint is not found."
Timeout    == "timeout"
HandlerErr == "handler error"
EntryErr   == "entry error"

VARIABLES
    entries,     \* ComponentEngine.entries, in key insertion order: <<[name, ctx]>>
    contexts,    \* every ComponentContext created: <<[name, eventHandlers, apis]>>
    entryCalls,  \* per context: how often entry.start() handed it to its component
    entryPending,\* per context: entry point promises not yet settled
    caught,      \* history: contexts whose entry point rejection .catch has logged
    evChan,      \* engine.event listeners of 'event': contexts, in subscription order
    apiChan,     \* engine.event listeners of 'api-call'
    resChan,     \* engine.event once-listeners of 'api-result': call ids
    calls,       \* per call(): its arguments, its promise and its timer
    inflight,    \* endpoint handler promises not yet settled
    frames,      \* history: every result frame emitted on 'api-result'
    failures,    \* history: calls one of whose handlers threw or rejected
    invoked,     \* history: the listener invocations [listener, value], in order
    sent,        \* history: the event frames broadcast by send(), in order
    readded,     \* history: the last addListener() found its triple registered
    registered,  \* history: the registrations in force, in the order addListener() made them
    starts,      \* number of engine.start() calls so far
    thrown       \* error thrown to the caller by the last operation

engVars  == <<entries, entryCalls, entryPending, caught, starts>>
chanVars == <<evChan, apiChan>>
callVars == <<resChan, calls, inflight, frames, failures>>
evVars   == <<invoked, sent, readded, registered>>
vars == <<entries, contexts, entryCalls, entryPending, caught, evChan, apiChan, resChan, calls,
          inflight, frames, failures, invoked, sent, readded, registered, starts, thrown>>

\* ---- sequences ----
Range(s) == {s[i] : i \in 1..Len(s)}

\* Array.prototype.splice(index, 1)
Splice(s, index) == SubSeq(s, 1, index - 1) \o SubSeq(s, index + 1, Len(s))

\* Array.prototype.findIndex over the set of indices that pass the test:
\* the first of them, 1-based; 0 stands for -1
FindIndex(passing) ==
    IF passing = {} THEN 0
    ELSE CHOOSE i \in passing : \A j \in passing : i <= j

\* EventEmitter.removeListener: drops one registration of x, if any
RemoveListenerFrom(chan, x) ==
    LET index == FindIndex({i \in 1..Len(chan) : chan[i] = x})
    IN IF index = 0 THEN chan ELSE Splice(chan, index)

CtxIds == 1..Len(contexts)
Handed == {i \in CtxIds : entryCalls[i] > 0}

\* ---- engine ----
\* new ComponentEngine(): no entry, no context, nothing on the channel
EngineInit ==
    /\ entries = <<>>
    /\ contexts = <<>>
    /\ entryCalls = <<>>
    /\ entryPending = <<>>
    /\ caught = {}
    /\ evChan = <<>>
    /\ apiChan = <<>>
    /\ resChan = <<>>
    /\ calls = <<>>
    /\ inflight = {}
    /\ frames = {}
    /\ failures = {}
    /\ invoked = <<>>
    /\ sent = <<>>
    /\ readded = FALSE
    /\ registered = <<>>
    /\ starts = 0
    /\ thrown = NoError

SetEntryAppend(es, name, ctx) == Append(es, [name |-> name, ctx |-> ctx])

\* this.entries[component.name] = entry
SetEntry(es, name, ctx) ==
    LET index == FindIndex({i \in 1..Len(es) : es[i].name = name})
    IN IF index = 0
       THEN Append(es, [name |-> name, ctx |-> ctx])
       ELSE [es EXCEPT ![index].ctx = ctx]

\* new ComponentContext(engine, name)
NewContext(name) == [name |-> name, eventHandlers |-> <<>>, apis |-> <<>>]

\* engine.use(component): registerEntry builds the context, whose constructor
\* subscribes it to 'event' and 'api-call'
Use(name) ==
    /\ Len(contexts) < MaxCtx
    /\ LET ctx == Len(contexts) + 1 IN
        /\ contexts' = Append(contexts, NewContext(name))
        /\ entryCalls' = Append(entryCalls, 0)
        /\ entryPending' = Append(entryPending, 0)
        /\ evChan' = Append(evChan, ctx)
        /\ apiChan' = Append(apiChan, ctx)
        /\ entries' = SetEntry(entries, name, ctx)
    /\ thrown' = NoError
    /\ UNCHANGED <<callVars, evVars, starts, caught>>

\* the for loop of start(): entry.start() for each entry in order; an entry
\* point that throws synchronously (thrower) ends the loop
RECURSIVE StartLoop(_, _, _)
StartLoop(es, counts, thrower) ==
    IF es = <<>> THEN counts
    ELSE LET ctx == Head(es).ctx
             next == [counts EXCEPT ![ctx] = @ + 1]
         IN IF ctx = thrower THEN next
            ELSE StartLoop(Tail(es), next, thrower)

Start(thrower) ==
    /\ starts < MaxStarts
    /\ thrower = 0 \/ \E k \in 1..Len(entries) : entries[k].ctx = thrower
    /\ starts' = starts + 1
    /\ entryCalls' = StartLoop(entries, entryCalls, thrower)
    /\ entryPending' = [i \in CtxIds |->
            IF i = thrower THEN entryPending[i]
            ELSE entryPending[i] + (entryCalls'[i] - entryCalls[i])]
    /\ thrown' = IF thrower = 0 THEN NoError ELSE EntryErr
    /\ UNCHANGED <<entries, contexts, caught, chanVars, callVars, evVars>>

\* the promise of an entry point resolves: nothing is attached to it
EntryResolve(c) ==
    /\ c \in CtxIds
    /\ entryPending[c] > 0
    /\ entryPending' = [entryPending EXCEPT ![c] = @ - 1]
    /\ thrown' = NoError
    /\ UNCHANGED <<entries, entryCalls, caught, starts, contexts, chanVars,
                   callVars, evVars>>

\* the promise of an entry point rejects: the .catch callback logs the error
EntryReject(c) ==
    /\ c \in CtxIds
    /\ entryPending[c] > 0
    /\ entryPending' = [entryPending EXCEPT ![c] = @ - 1]
    /\ caught' = caught \cup {c}
    /\ thrown' = NoError
    /\ UNCHANGED <<entries, entryCalls, starts, contexts, chanVars, callVars, evVars>>

DisposeEventsOnly(c) ==
    /\ c \in Handed
    /\ evChan' = RemoveListenerFrom(evChan, c)
    /\ thrown' = NoError
    /\ UNCHANGED <<engVars, contexts, apiChan, callVars, evVars>>

\* ctx.dispose()
Dispose(c) ==
    /\ c \in Handed
    /\ evChan' = RemoveListenerFrom(evChan, c)
    /\ apiChan' = RemoveListenerFrom(apiChan, c)
    /\ thrown' = NoError
    /\ UNCHANGED <<engVars, contexts, callVars, evVars>>

\* ---- endpoints ----
ApiIndex(apis, name) ==
    FindIndex({i \in 1..Len(apis) : apis[i].endpoint = name})

AddEndpointListNoCheck(apis, name, handler) ==
    Append(apis, [endpoint |-> name, handler |-> handler])

AddEndpointList(apis, name, handler) ==
    IF ApiIndex(apis, name) # 0 THEN apis
    ELSE Append(apis, [endpoint |-> name, handler |-> handler])

AddEndpoint(c, name, handler) ==
    /\ c \in Handed
    /\ contexts' = [contexts EXCEPT ![c].apis = AddEndpointList(@, name, handler)]
    /\ thrown' = IF ApiIndex(contexts[c].apis, name) # 0 THEN DupError ELSE NoError
    /\ UNCHANGED <<engVars, chanVars, callVars, evVars>>

RemoveEndpointListLast(apis, name) ==
    IF ApiIndex(apis, name) = 0 THEN apis
    ELSE SubSeq(apis, 1, Len(apis) - 1)

RemoveEndpointList(apis, name) ==
    IF ApiIndex(apis, name) = 0 THEN apis
    ELSE Splice(apis, ApiIndex(apis, name))

RemoveEndpoint(c, name) ==
    /\ c \in Handed
    /\ contexts' = [contexts EXCEPT ![c].apis = RemoveEndpointList(@, name)]
    /\ thrown' = IF ApiIndex(contexts[c].apis, name) = 0 THEN NotFound ELSE NoError
    /\ UNCHANGED <<engVars, chanVars, callVars, evVars>>

\* ---- the call protocol ----
\* resolve / reject of the call's promise: only the first settles it
\* a handler's resolved value is opaque to the protocol: each handler
\* invocation yields its own token (as getUser's uuid() does)
NoValue == [ctx |-> 0, id |-> 0]
ValueOf(inv) == [ctx |-> inv.ctx, id |-> inv.id]

PromiseResolveDropped(call, value) == [call EXCEPT !.settles = @ + 1]

PromiseResolve(call, value) ==
    IF call.state = "pending"
    THEN [call EXCEPT !.state = "resolved", !.value = value, !.settles = @ + 1]
    ELSE [call EXCEPT !.settles = @ + 1]

PromiseReject(call, error) ==
    IF call.state = "pending"
    THEN [call EXCEPT !.state = "rejected", !.reason = error, !.settles = @ + 1]
    ELSE [call EXCEPT !.settles = @ + 1]

ClearTimeout(timer) == IF timer = "armed" THEN "cleared" ELSE timer

RootApiHandlerAnyName(ctx, frame) ==
    LET index == ApiIndex(ctx.apis, frame.endpoint)
    IN IF index = 0 THEN NoHandler ELSE ctx.apis[index].handler

\* rootApiHandler of context c up to the handler invocation: the handler it
\* invokes for the frame, or NoHandler
RootApiHandler(ctx, frame) ==
    IF frame.component # ctx.name THEN NoHandler
    ELSE LET index == ApiIndex(ctx.apis, frame.endpoint)
         IN IF index = 0 THEN NoHandler ELSE ctx.apis[index].handler

\* emit('api-call', frame) over the listeners chan: the handler promises
\* created, and whether a handler threw synchronously (which ends the emit)
RECURSIVE EmitApiCall(_, _, _)
EmitApiCall(chan, frame, thrower) ==
    IF chan = <<>> THEN [invs |-> {}, threw |-> FALSE]
    ELSE LET c == Head(chan)
             handler == RootApiHandler(contexts[c], frame)
         IN IF handler = NoHandler THEN EmitApiCall(Tail(chan), frame, thrower)
            ELSE IF c = thrower THEN [invs |-> {}, threw |-> TRUE]
            ELSE LET rest == EmitApiCall(Tail(chan), frame, thrower)
                 IN [invs |-> {[id |-> frame.id, ctx |-> c, handler |-> handler]}
                                \cup rest.invs,
                     threw |-> rest.threw]

ListenerAnyId(id, call, frame) ==
    PromiseResolve([call EXCEPT !.timer = ClearTimeout(@)], frame.value)

\* the listener function of call id: ignores frames of other ids
Listener(id, call, frame) ==
    IF frame.id # id THEN call
    ELSE PromiseResolve([call EXCEPT !.timer = ClearTimeout(@)], frame.value)

\* emit('api-result', frame) over the snapshot of once-listeners: each
\* wrapper first removes itself from the channel, then runs its listener
RECURSIVE EmitApiResult(_, _, _, _)
EmitApiResult(snapshot, chan, cs, frame) ==
    IF snapshot = <<>> THEN [chan |-> chan, calls |-> cs]
    ELSE LET id == Head(snapshot)
         IN EmitApiResult(Tail(snapshot), RemoveListenerFrom(chan, id),
                          [cs EXCEPT ![id] = Listener(id, cs[id], frame)], frame)

TimeoutCallbackNoReject(call) == [call EXCEPT !.timer = "fired"]

\* the callback of setTimeout
TimeoutCallback(call) ==
    PromiseReject([call EXCEPT !.timer = "fired"], Timeout)

\* ctx.call(component, endpoint): the promise executor, run synchronously
CallExecutor(c, component, endpoint, thrower) ==
    /\ c \in Handed
    /\ LET id == Len(calls) + 1
           frame == [component |-> component, id |-> id, endpoint |-> endpoint]
           call == [component |-> component, endpoint |-> endpoint,
                    state |-> "pending", value |-> NoValue, reason |-> NoError,
                    timer |-> "armed", settles |-> 0,
                    served |-> \E i \in Range(apiChan) :
                                  /\ contexts[i].name = component
                                  /\ \E k \in 1..Len(contexts[i].apis) :
                                        contexts[i].apis[k].endpoint = endpoint]
           out == EmitApiCall(apiChan, frame, thrower)
       IN /\ thrower = 0 \/ (thrower \in Range(apiChan)
                              /\ RootApiHandler(contexts[thrower], frame) # NoHandler)
          /\ resChan' = Append(resChan, id)
          /\ inflight' = inflight \cup out.invs
          /\ calls' = Append(calls,
                IF out.threw THEN PromiseReject(call, HandlerErr) ELSE call)
          /\ failures' = IF out.threw THEN failures \cup {id} ELSE failures
    /\ thrown' = NoError
    /\ UNCHANGED <<engVars, contexts, chanVars, frames, evVars>>

Call(c, component, endpoint, thrower) ==
    /\ Len(calls) < MaxCalls
    /\ CallExecutor(c, component, endpoint, thrower)

\* the handler's promise resolves: the .then callback emits the result frame
HandlerResolve(inv) ==
    /\ inv \in inflight
    /\ LET frame == [component |-> contexts[inv.ctx].name, id |-> inv.id,
                     value |-> ValueOf(inv)]
           out == EmitApiResult(resChan, resChan, calls, frame)
       IN /\ resChan' = out.chan
          /\ calls' = out.calls
          /\ frames' = frames \cup {frame}
    /\ inflight' = inflight \ {inv}
    /\ thrown' = NoError
    /\ UNCHANGED <<engVars, contexts, chanVars, failures, evVars>>

\* the handler's promise rejects: the .catch callback logs the error
HandlerReject(inv) ==
    /\ inv \in inflight
    /\ inflight' = inflight \ {inv}
    /\ failures' = failures \cup {inv.id}
    /\ thrown' = NoError
    /\ UNCHANGED <<engVars, contexts, chanVars, resChan, calls, frames, evVars>>

TimerFireCancelsHandler(id) ==
    /\ id \in 1..Len(calls)
    /\ calls[id].timer = "armed"
    /\ resChan' = RemoveListenerFrom(resChan, id)
    /\ calls' = [calls EXCEPT ![id] = TimeoutCallback(@)]
    /\ inflight' = {inv \in inflight : inv.id # id}
    /\ thrown' = NoError
    /\ UNCHANGED <<engVars, contexts, chanVars, frames, failures, evVars>>

\* the timer of call id expires
TimerFire(id) ==
    /\ id \in 1..Len(calls)
    /\ calls[id].timer = "armed"
    /\ resChan' = RemoveListenerFrom(resChan, id)
    /\ calls' = [calls EXCEPT ![id] = TimeoutCallback(@)]
    /\ thrown' = NoError
    /\ UNCHANGED <<engVars, contexts, chanVars, inflight, frames, failures, evVars>>

\* ---- publish / subscribe ----
GetListenerIndex(handlers, component, event, listener) ==
    FindIndex({i \in 1..Len(handlers) :
                 /\ handlers[i].component = component
                 /\ handlers[i].event = event
                 /\ handlers[i].listener = listener})

AddListenerListNoCheck(handlers, component, event, listener) ==
    Append(handlers,
        [component |-> component, event |-> event, listener |-> listener])

AddListenerList(handlers, component, event, listener) ==
    IF GetListenerIndex(handlers, component, event, listener) # 0 THEN handlers
    ELSE Append(handlers,
            [component |-> component, event |-> event, listener |-> listener])

AddListener(c, component, event, listener) ==
    /\ c \in Handed
    /\ contexts' = [contexts EXCEPT
            ![c].eventHandlers = AddListenerList(@, component, event, listener)]
    /\ readded' = (GetListenerIndex(contexts[c].eventHandlers,
                                     component, event, listener) # 0)
    /\ registered' =
          IF contexts'[c] = contexts[c] THEN registered
          ELSE Append(registered, [ctx |-> c, component |-> component,
                                   event |-> event, listener |-> listener])
    /\ thrown' = NoError
    /\ UNCHANGED <<engVars, chanVars, callVars, invoked, sent>>

RemoveListenerList(handlers, component, event, listener) ==
    LET index == GetListenerIndex(handlers, component, event, listener)
    IN IF index = 0 THEN handlers ELSE Splice(handlers, index)

RemoveListener(c, component, event, listener) ==
    /\ c \in Handed
    /\ contexts' = [contexts EXCEPT
            ![c].eventHandlers = RemoveListenerList(@, component, event, listener)]
    /\ readded' = FALSE
    /\ registered' =
          IF contexts'[c] = contexts[c] THEN registered
          ELSE LET Other(r) == r # [ctx |-> c, component |-> component,
                                    event |-> event, listener |-> listener]
               IN SelectSeq(registered, Other)
    /\ thrown' = NoError
    /\ UNCHANGED <<engVars, chanVars, callVars, invoked, sent>>

RootEventHandlerAnySource(ctx, frame) ==
    LET Match(item) == item.event = frame.event
    IN SelectSeq(ctx.eventHandlers, Match)

\* rootEventHandler: the listeners of the context that match the frame
RootEventHandler(ctx, frame) ==
    LET Match(item) == item.component = frame.component /\ item.event = frame.event
    IN SelectSeq(ctx.eventHandlers, Match)

\* for (const listener of listeners) listener.listener(frame.value)
RECURSIVE InvokeAll(_, _, _)
InvokeAll(listeners, value, log) ==
    IF listeners = <<>> THEN log
    ELSE InvokeAll(Tail(listeners), value,
            Append(log, [listener |-> Head(listeners).listener, value |-> value]))

EmitEventFirstOnly(chan, frame, log) ==
    IF chan = <<>> THEN log
    ELSE InvokeAll(RootEventHandler(contexts[Head(chan)], frame), frame.value, log)

\* emit('event', frame) over the subscribed contexts chan
RECURSIVE EmitEvent(_, _, _)
EmitEvent(chan, frame, log) ==
    IF chan = <<>> THEN log
    ELSE EmitEvent(Tail(chan), frame,
            InvokeAll(RootEventHandler(contexts[Head(chan)], frame), frame.value, log))

\* a payload is opaque to the channel: each send() carries its own token
PayloadOf(n) == n

Send(c, event) ==
    /\ c \in Handed
    /\ Len(sent) < MaxSends
    /\ LET frame == [component |-> contexts[c].name, event |-> event,
                     value |-> PayloadOf(Len(sent) + 1)]
       IN /\ sent' = Append(sent, frame)
          /\ invoked' = EmitEvent(evChan, frame, invoked)
    /\ readded' = FALSE
    /\ registered' = registered
    /\ thrown' = NoError
    /\ UNCHANGED <<engVars, contexts, chanVars, callVars>>

\* ---- the example system ----
\* the state after engine.use(new NotesComponent()), engine.use(new
\* UsersComponent()) and engine.start(): two subscribed contexts, each handed
\* to its component.  What the components then do with their context is any
\* sequence of the operations below.
WiredEntries == SetEntry(SetEntry(<<>>, "notes", 1), "users", 2)

Init ==
    /\ entries = WiredEntries
    /\ contexts = <<NewContext("notes"), NewContext("users")>>
    /\ entryCalls = StartLoop(WiredEntries, <<0, 0>>, 0)
    /\ entryPending = StartLoop(WiredEntries, <<0, 0>>, 0)
    /\ caught = {}
    /\ evChan = <<1, 2>>
    /\ apiChan = <<1, 2>>
    /\ resChan = <<>>
    /\ calls = <<>>
    /\ inflight = {}
    /\ frames = {}
    /\ failures = {}
    /\ invoked = <<>>
    /\ sent = <<>>
    /\ readded = FALSE
    /\ registered = <<>>
    /\ starts = 1
    /\ thrown = NoError

\* ---- the call protocol ----
Next ==
    \/ \E c \in CtxIds : Dispose(c)
    \/ \E c \in CtxIds, name \in CallEndpoints, handler \in CallHandlers :
          AddEndpoint(c, name, handler)
    \/ \E c \in CtxIds, name \in CallEndpoints : RemoveEndpoint(c, name)
    \/ \E c \in CtxIds, component \in Targets, endpoint \in CallEndpoints,
          thrower \in 0..Len(contexts) : Call(c, component, endpoint, thrower)
    \/ \E inv \in inflight : HandlerResolve(inv)
    \/ \E inv \in inflight : HandlerReject(inv)
    \/ \E id \in 1..Len(calls) : TimerFire(id)

Spec == Init /\ [][Next]_vars

\* the same system under the guarantee of setTimeout: an armed timer that is
\* not cleared expires
FairSpec == Spec /\ \A id \in 1..MaxCalls : WF_vars(TimerFire(id))

\* ---- the engine, from new ComponentEngine() ----
NextEngine ==
    \/ \E name \in Names : Use(name)
    \/ \E thrower \in 0..Len(contexts) : Start(thrower)
    \/ \E c \in CtxIds : EntryResolve(c)
    \/ \E c \in CtxIds : EntryReject(c)
    \/ \E c \in CtxIds, name \in CallEndpoints, handler \in CallHandlers :
          AddEndpoint(c, name, handler)
    \/ \E c \in CtxIds, name \in CallEndpoints : RemoveEndpoint(c, name)

SpecEngine == EngineInit /\ [][NextEngine]_vars

\* ---- dispose, with both kinds of broadcast ----
\* one listener function is enough to see whether a context is delivered to
DisposeListeners == {"l1"}

NextDispose ==
    \/ \E c \in CtxIds : Dispose(c)
    \/ \E c \in CtxIds, component \in Sources, event \in Events,
          listener \in DisposeListeners :
          /\ GetListenerIndex(contexts[c].eventHandlers, component, event, listener) = 0
          /\ AddListener(c, component, event, listener)
    \/ \E c \in CtxIds, event \in Events :
          /\ Len(calls) + Len(sent) < MaxFrames
          /\ Send(c, event)
    \/ \E c \in CtxIds, name \in CallEndpoints, handler \in CallHandlers :
          AddEndpoint(c, name, handler)
    \/ \E c \in CtxIds, component \in Targets, endpoint \in CallEndpoints,
          thrower \in 0..Len(contexts) :
          /\ Len(calls) + Len(sent) < MaxFrames
          /\ Call(c, component, endpoint, thrower)
    \/ \E inv \in inflight : HandlerResolve(inv)
    \/ \E id \in 1..Len(calls) : TimerFire(id)

SpecDispose == Init /\ [][NextDispose]_vars

\* ---- two contexts of one component name ----
\* the state after use(users), start(), use(users), start(): the second use()
\* replaced the entry of the first, whose context stays subscribed and in the
\* hands of the first component instance
ReplicaEntries == SetEntry(SetEntry(<<>>, "users", 1), "users", 2)

InitReplicas ==
    /\ entries = ReplicaEntries
    /\ contexts = <<NewContext("users"), NewContext("users")>>
    /\ entryCalls = <<1, 1>>
    /\ entryPending = <<1, 1>>
    /\ caught = {}
    /\ evChan = <<1, 2>>
    /\ apiChan = <<1, 2>>
    /\ resChan = <<>>
    /\ calls = <<>>
    /\ inflight = {}
    /\ frames = {}
    /\ failures = {}
    /\ invoked = <<>>
    /\ sent = <<>>
    /\ readded = FALSE
    /\ registered = <<>>
    /\ starts = 2
    /\ thrown = NoError

SpecReplicas == InitReplicas /\ [][Next]_vars

\* ---- the example program: NotesComponent and UsersComponent ----
\* The engine registers each of the two components once, then starts.
\* UsersComponent.start registers getUser, whose handler is an async function
\* without await: its promise resolves in the turn of the call, before any
\* timer can expire.  NotesComponent.start calls users.getUser, awaits the
\* call, and calls again when the call was rejected.  The model lets the two
\* components be registered in either order and lets each entry point run
\* its first operation at any turn after start().
CtxOf(name) == FindIndex({c \in CtxIds : contexts[c].name = name})

ExUse(name) ==
    /\ starts = 0
    /\ CtxOf(name) = 0
    /\ Use(name)

ExStart ==
    /\ starts = 0
    /\ \A name \in Names : CtxOf(name) # 0
    /\ Start(0)

\* UsersComponent.start: ctx.addEndpoint({ name: 'getUser' }, handler)
UsersRegister ==
    /\ CtxOf("users") \in Handed
    /\ contexts[CtxOf("users")].apis = <<>>
    /\ \E handler \in CallHandlers : AddEndpoint(CtxOf("users"), "getUser", handler)

\* the while loop of NotesComponent.start: it is done once a call resolved
\* (the user object is truthy), and calls (again) at the start and after a
\* rejected call
LastCallState == IF calls = <<>> THEN "rejected" ELSE calls[Len(calls)].state

NotesDone == calls # <<>> /\ LastCallState = "resolved"

NotesCall ==
    /\ CtxOf("notes") \in Handed
    /\ LastCallState = "rejected"
    /\ Len(calls) < MaxRetries \/ contexts[CtxOf("users")].apis # <<>>
    /\ CallExecutor(CtxOf("notes"), "users", "getUser", 0)

\* a timer expires only in a turn with no promise callback left to run
ExTimerFire(id) ==
    /\ inflight = {}
    /\ TimerFire(id)

\* the entry point promises: users' resolves once start has run, notes' once
\* its loop is done
ExEntryResolve(c) ==
    /\ c \in Handed
    /\ c = CtxOf("users") \/ NotesDone
    /\ EntryResolve(c)

NextExample ==
    \/ \E name \in Names : ExUse(name)
    \/ ExStart
    \/ UsersRegister
    \/ NotesCall
    \/ \E inv \in inflight : HandlerResolve(inv)
    \/ \E id \in 1..Len(calls) : ExTimerFire(id)
    \/ \E c \in CtxIds : ExEntryResolve(c)

\* the program runs: every enabled step of it is eventually taken
SpecExample ==
    /\ EngineInit /\ [][NextExample]_vars
    /\ WF_vars(\E name \in Names : ExUse(name))
    /\ WF_vars(ExStart)
    /\ WF_vars(UsersRegister)
    /\ WF_vars(NotesCall)
    /\ WF_vars(\E inv \in inflight : HandlerResolve(inv))
    /\ WF_vars(\E id \in 1..Len(calls) : ExTimerFire(id))

\* ---- endpoint registration ----
NextEndpoints ==
    \/ \E c \in CtxIds : Dispose(c)
    \/ \E c \in CtxIds, name \in Endpoints, handler \in Handlers :
          AddEndpoint(c, name, handler)
    \/ \E c \in CtxIds, name \in Endpoints : RemoveEndpoint(c, name)

SpecEndpoints == Init /\ [][NextEndpoints]_vars

\* ---- publish / subscribe ----
\* (the registrations made here are new ones: a repeated addListener changes
\* no list, and is an action of SpecListeners)
NextEvents ==
    \/ \E c \in CtxIds : Dispose(c)
    \/ \E c \in CtxIds, component \in Sources, event \in Events, listener \in Listeners :
          /\ GetListenerIndex(contexts[c].eventHandlers, component, event, listener) = 0
          /\ AddListener(c, component, event, listener)
    \/ \E c \in CtxIds, component \in Sources, event \in Events, listener \in Listeners :
          RemoveListener(c, component, event, listener)
    \/ \E c \in CtxIds, event \in Events : Send(c, event)

SpecEvents == Init /\ [][NextEvents]_vars

\* ---- subscription bookkeeping alone ----
NextListeners ==
    \/ \E c \in CtxIds : Dispose(c)
    \/ \E c \in CtxIds, component \in Sources, event \in Events, listener \in Listeners :
          AddListener(c, component, event, listener)
    \/ \E c \in CtxIds, component \in Sources, event \in Events, listener \in Listeners :
          RemoveListener(c, component, event, listener)

SpecListeners == Init /\ [][NextListeners]_vars

\* ---- claims on the call protocol ----
CallIds == 1..Len(calls)
Pending(id) == calls[id].state = "pending"
TimedOut(id) ==
    calls[id].state = "rejected" /\ calls[id].reason = Timeout /\ calls[id].timer = "fired"

\* C1: a call whose handler resolves with value v while the call is still
\* waiting (not settled, timer not expired) resolves with exactly v, whatever
\* other calls are pending or have settled.
C1_CallReturnsHandlerValue ==
    [][\A inv \in inflight :
         (/\ HandlerResolve(inv)
          /\ Pending(inv.id)
          /\ calls[inv.id].timer = "armed")
         => (/\ calls'[inv.id].state = "resolved"
             /\ calls'[inv.id].value = ValueOf(inv))]_vars

\* C2: a call that resolved with a value resolved with the value of a result
\* frame carrying its own correlation id.
C2_NoCrossResolve ==
    \A id \in CallIds :
        calls[id].state = "resolved"
        => \E frame \in frames : frame.id = id /\ frame.value = calls[id].value

C2_Witness ==
    \E a, b \in CallIds :
        /\ a # b
        /\ calls[a].state = "resolved"
        /\ calls[b].state = "resolved"
        /\ calls[a].value # calls[b].value

\* C3: a call that is neither resolved nor timed out still has its result
\* listener registered on the channel.
C3_PendingCallKeepsListener ==
    \A id \in CallIds :
        (Pending(id) /\ calls[id].timer = "armed") => id \in Range(resChan)

\* C4: a call broadcast when no subscribed context of the target name has the
\* endpoint is settled by nothing but the timeout rejection at timer expiry
\* (until then it is pending with its timer armed), and it is so rejected.
Unserved(id) == Len(calls) >= id /\ ~calls[id].served

C4_MissingTargetOnlyTimesOut ==
    /\ [](\A id \in CallIds :
            ~calls[id].served
            => \/ Pending(id) /\ calls[id].timer = "armed"
               \/ TimedOut(id))
    /\ \A id \in 1..MaxCalls : Unserved(id) ~> (Unserved(id) /\ TimedOut(id))

C4_Witness ==
    \E a, b \in CallIds :
        /\ calls[a].component = "ghost" /\ ~calls[a].served /\ TimedOut(a)
        /\ calls[b].component = "users" /\ ~calls[b].served /\ TimedOut(b)
        /\ \E c \in CtxIds : ApiIndex(contexts[c].apis, calls[a].endpoint) # 0

\* C5: when a handler of a call failed (threw or rejected), no result frame
\* with the call's id is broadcast and the call is settled by nothing but the
\* timeout rejection at timer expiry.
C5_HandlerFailureOnlyTimesOut ==
    \A id \in failures :
        /\ \A frame \in frames : frame.id # id
        /\ \/ Pending(id) /\ calls[id].timer = "armed"
           \/ TimedOut(id)

\* C6: a call is settled at most once, by one of the two paths: resolved with
\* its timer cancelled, or rejected by its timer with its listener removed;
\* no settle is attempted on a settled call.
C6_SettledExactlyOnce ==
    \A id \in CallIds :
        /\ calls[id].settles <= 1
        /\ calls[id].state = "resolved" => calls[id].timer = "cleared"
        /\ calls[id].timer = "fired" => (TimedOut(id) /\ id \notin Range(resChan))
        /\ calls[id].timer = "cleared" => calls[id].state = "resolved"

HasEndpoint(c, name) ==
    \E k \in 1..Len(contexts[c].apis) : contexts[c].apis[k].endpoint = name

\* a call frame for endpoint name addressed to the component of context c
CallFrameFor(c, name) == [component |-> contexts[c].name, id |-> 0, endpoint |-> name]

\* C8: addEndpoint with a name already registered on the context throws the
\* duplicate-endpoint error and leaves the endpoint list unchanged; the handler
\* invoked for a call of that name is still the first one.
C8_DuplicateEndpointRejected ==
    [][\A c \in CtxIds, name \in Endpoints, handler \in Handlers :
         (AddEndpoint(c, name, handler) /\ HasEndpoint(c, name))
         => (/\ thrown' = DupError
             /\ contexts' = contexts
             /\ \E k \in 1..Len(contexts[c].apis) :
                    /\ contexts[c].apis[k].endpoint = name
                    /\ RootApiHandler(contexts'[c], CallFrameFor(c, name))
                          = contexts[c].apis[k].handler)]_vars

C8_Witness ==
    /\ thrown = DupError
    /\ \E c \in CtxIds : Len(contexts[c].apis) = 2

\* C9: removeEndpoint with a name not registered on the context throws the
\* not-found error and leaves the endpoint list unchanged; with a registered
\* name it removes exactly that entry, after which a call frame for the name
\* finds no handler on the context and the name can be registered again.
C9_RemoveEndpoint ==
    [][\A c \in CtxIds, name \in Endpoints :
         RemoveEndpoint(c, name)
         => IF ~HasEndpoint(c, name)
            THEN thrown' = NotFound /\ contexts' = contexts
            ELSE LET Other(item) == item.endpoint # name
                 IN /\ thrown' = NoError
                    /\ contexts'[c].apis = SelectSeq(contexts[c].apis, Other)
                    /\ Len(contexts'[c].apis) = Len(contexts[c].apis) - 1
                    /\ \A d \in CtxIds \ {c} : contexts'[d] = contexts[d]
                    /\ RootApiHandler(contexts'[c], CallFrameFor(c, name)) = NoHandler
                    /\ \A handler \in Handlers :
                          AddEndpointList(contexts'[c].apis, name, handler)
                            = Append(contexts'[c].apis,
                                     [endpoint |-> name, handler |-> handler])]_vars

C9_Witness ==
    /\ thrown = NotFound
    /\ \E c \in CtxIds : Len(contexts[c].apis) = 1

\* ---- claims on publish / subscribe ----
\* the subscribed contexts on which listener is registered for the frame's
\* (source component, event name)
Subscribers(listener, frame) ==
    {c \in Range(evChan) :
        \E k \in 1..Len(contexts[c].eventHandlers) :
            contexts[c].eventHandlers[k] =
                [component |-> frame.component, event |-> frame.event,
                 listener |-> listener]}

InvocationsOf(listener, log) ==
    LET Mine(entry) == entry.listener = listener
    IN SelectSeq(log, Mine)

\* C10: a send() invokes a listener once for each subscribed context on which
\* the listener is registered, at the time of the send, for the frame's
\* (source component, event name), with the frame's payload, and not otherwise;
\* so after addListener, send, removeListener, send the listener has been
\* invoked once, with the payload of the first send.
C10_ListenerInvokedWhenRegistered ==
    [][\A c \in CtxIds, event \in Events :
         Send(c, event)
         => LET frame == sent'[Len(sent')]
            IN \A listener \in Listeners :
                 InvocationsOf(listener, invoked')
                   = InvocationsOf(listener, invoked)
                     \o [i \in 1..Cardinality(Subscribers(listener, frame)) |->
                            [listener |-> listener, value |-> frame.value]]]_vars

C10_Witness ==
    \E listener \in Listeners :
        /\ Len(sent) = 2
        /\ sent[1].component = "users" /\ sent[2].component = "users"
        /\ sent[1].event = sent[2].event
        /\ evChan = <<1, 2>>
        /\ Subscribers(listener, sent[2]) = {}
        /\ InvocationsOf(listener, invoked)
             = <<[listener |-> listener, value |-> sent[1].value]>>

\* how often the triple is registered in a subscription list
Occurrences(handlers, component, event, listener) ==
    Cardinality({k \in 1..Len(handlers) :
                    handlers[k] = [component |-> component, event |-> event,
                                   listener |-> listener]})

\* C11: addListener with a triple already registered on the context leaves
\* the context unchanged; after any addListener the triple is registered once
\* (so a matching frame invokes the listener once for the context) and a
\* further addListener changes nothing; after one removeListener the triple is
\* not registered at all.
C11_AddListenerIdempotent ==
    [][\A c \in CtxIds, component \in Sources, event \in Events,
          listener \in Listeners :
         /\ AddListener(c, component, event, listener)
            => LET after == contexts'[c].eventHandlers
                   frame == [component |-> component, event |-> event, value |-> 0]
               IN /\ Occurrences(contexts[c].eventHandlers,
                                 component, event, listener) > 0
                     => contexts' = contexts
                  /\ Occurrences(after, component, event, listener) = 1
                  /\ Len(InvocationsOf(listener,
                          InvokeAll(RootEventHandler(contexts'[c], frame), 0, <<>>))) = 1
                  /\ AddListenerList(after, component, event, listener) = after
         /\ RemoveListener(c, component, event, listener)
            => Occurrences(contexts'[c].eventHandlers,
                           component, event, listener) = 0]_vars

C11_Witness ==
    /\ readded
    /\ \E c \in CtxIds : Len(contexts[c].eventHandlers) = 2

\* ---- claims on the engine ----
Registered(c) == \E k \in 1..Len(entries) : entries[k].ctx = c

\* context c is the last one created under its component name
Latest(c) == \A d \in CtxIds : contexts[d].name = contexts[c].name => d <= c

\* C12: one start() invokes the entry point of every registered component
\* once, whatever entry point fails, and no failure escapes start().
C12_StartInvokesEveryEntryOnce ==
    [][\A thrower \in 0..Len(contexts) :
         Start(thrower)
         => /\ \A c \in CtxIds :
                 entryCalls'[c] = entryCalls[c] + (IF Registered(c) THEN 1 ELSE 0)
            /\ thrown' = NoError]_vars

\* C18: use() of a name already registered raises no error and replaces the
\* entry of that name, so the registry holds one entry per name, that of the
\* last context created under it; a start() invokes no entry point of an
\* earlier context of the name, and one that returns normally invokes the
\* entry point of the latest context of every name once.
C18_ReregistrationOverwrites ==
    [][/\ \A name \in Names :
            Use(name)
            => /\ thrown' = NoError
               /\ (\E k \in 1..Len(entries) : entries[k].name = name)
                    => Len(entries') = Len(entries)
               /\ \A k1, k2 \in 1..Len(entries') :
                    entries'[k1].name = entries'[k2].name => k1 = k2
               /\ \E k \in 1..Len(entries') :
                    entries'[k] = [name |-> name, ctx |-> Len(contexts')]
       /\ \A thrower \in 0..Len(contexts) :
            Start(thrower)
            => /\ \A c \in CtxIds : ~Latest(c) => entryCalls'[c] = entryCalls[c]
               /\ thrown' = NoError
                    => \A c \in CtxIds : Latest(c) => entryCalls'[c] = entryCalls[c] + 1
      ]_vars

C18_Witness ==
    \E c, d \in CtxIds :
        /\ c < d
        /\ contexts[c].name = contexts[d].name
        /\ Len(entries) = 1
        /\ entryCalls[c] = 0
        /\ entryCalls[d] = 1

\* C19: over the contexts subscribed to the channel, at most one endpoint
\* handler is registered per (component name, endpoint name).
C19_OneHandlerPerComponentEndpoint ==
    \A name \in Names, endpoint \in Endpoints :
        Cardinality({c \in Range(apiChan) :
                        contexts[c].name = name /\ HasEndpoint(c, endpoint)}) <= 1

\* ---- claims on timeout and late results ----
\* C15: the timeout of a call leaves its handler in flight; when the handler
\* then resolves, its result frame is broadcast, and that frame changes no
\* call; a timed-out call stays rejected with the timeout error.
C15_TimeoutCancelsOnlyTheWait ==
    [][/\ \A id \in CallIds : TimerFire(id) => inflight' = inflight
       /\ \A id \in CallIds : TimedOut(id) => calls'[id] = calls[id]
       /\ \A inv \in inflight :
             (HandlerResolve(inv) /\ TimedOut(inv.id))
             => /\ [component |-> contexts[inv.ctx].name, id |-> inv.id,
                     value |-> ValueOf(inv)] \in frames'
                /\ calls' = calls]_vars

\* a call timed out with its handler in flight, and the handler's result
\* frame was broadcast afterwards
C15_Witness ==
    \E id \in CallIds :
        /\ calls[id].served /\ TimedOut(id)
        /\ \E f \in frames : f.id = id
        /\ \A inv \in inflight : inv.id # id

\* C20: a settled call has no result listener on the channel and no armed
\* timer, so the result listeners on the channel are never more than the
\* unsettled calls.
C20_NoPendingCallLeak ==
    /\ \A id \in CallIds :
          ~Pending(id) => (id \notin Range(resChan) /\ calls[id].timer # "armed")
    /\ Len(resChan) <= Cardinality({id \in CallIds : Pending(id)})

\* ---- claims on several contexts of one name ----
\* the subscribed contexts that answer a call of component.endpoint
Responders(component, endpoint) ==
    {i \in Range(apiChan) : contexts[i].name = component /\ HasEndpoint(i, endpoint)}

\* C16: a call invokes the handler of every subscribed context of the target
\* name that has the endpoint; the first result frame with the call's id
\* resolves the call with its value, and a later frame with that id leaves the
\* call as it is.
C16_FirstResultWins ==
    [][/\ \A c \in CtxIds, component \in Targets, endpoint \in CallEndpoints,
             thrower \in 0..Len(contexts) :
             (/\ Call(c, component, endpoint, thrower)
              /\ Cardinality(Responders(component, endpoint)) >= 2)
             => {inv.ctx : inv \in {v \in inflight' : v.id = Len(calls')}}
                  = Responders(component, endpoint)
       /\ \A inv \in inflight :
             HandlerResolve(inv)
             => IF \E f \in frames : f.id = inv.id
                THEN calls'[inv.id] = calls[inv.id]
                ELSE (Pending(inv.id) /\ calls[inv.id].timer = "armed")
                     => (/\ calls'[inv.id].state = "resolved"
                         /\ calls'[inv.id].value = ValueOf(inv))]_vars

\* ---- claims on the order of delivery ----
\* the registrations in force that a frame matches, on subscribed contexts
MatchingRegistered(frame) ==
    LET Match(r) == /\ r.component = frame.component
                    /\ r.event = frame.event
                    /\ r.ctx \in Range(evChan)
    IN SelectSeq(registered, Match)

\* what one send() added to the invocation log
Delivered == SubSeq(invoked', Len(invoked) + 1, Len(invoked'))

Invocations(regs, value) ==
    [i \in 1..Len(regs) |-> [listener |-> regs[i].listener, value |-> value]]

\* regs regrouped context by context, the contexts in the order of chan
RECURSIVE ByContext(_, _)
ByContext(chan, regs) ==
    IF chan = <<>> THEN <<>>
    ELSE LET Mine(r) == r.ctx = Head(chan)
         IN SelectSeq(regs, Mine) \o ByContext(Tail(chan), regs)

\* C14 (as stated): one send() invokes all matching listeners of all
\* contexts, in the order in which addListener registered them, before it
\* returns.
C14_DeliveryInRegistrationOrder ==
    [][\A c \in CtxIds, event \in Events :
         Send(c, event)
         => LET frame == sent'[Len(sent')]
            IN Delivered = Invocations(MatchingRegistered(frame), frame.value)]_vars

\* C14 (amended): one send() invokes all matching listeners of all contexts
\* before it returns, context by context in the order the contexts subscribed
\* to the channel, and within one context in the order of registration.
C14_DeliveryByContextThenRegistration ==
    [][\A c \in CtxIds, event \in Events :
         Send(c, event)
         => LET frame == sent'[Len(sent')]
            IN Delivered =
                 Invocations(ByContext(evChan, MatchingRegistered(frame)), frame.value)]_vars

\* a broadcast reached two contexts, the listener of the second context
\* registered before the one of the first
C14_Witness ==
    /\ Len(registered) = 2 /\ Len(invoked) >= 2
    /\ registered[1].ctx = 2 /\ registered[2].ctx = 1
    /\ registered[1].listener # registered[2].listener
    /\ evChan = <<1, 2>>
    /\ invoked[Len(invoked) - 1] =
          [listener |-> registered[2].listener, value |-> sent[Len(sent)].value]
    /\ invoked[Len(invoked)] =
          [listener |-> registered[1].listener, value |-> sent[Len(sent)].value]

\* ---- claims on dispose ----
\* C17: dispose() of a context changes no context (endpoint lists and
\* listener lists stay) and takes that context, and no other, off both
\* channels; a later call invokes handlers of subscribed contexts only, and
\* a later send invokes listeners of subscribed contexts only.
C17_DisposedContextIsSilent ==
    [][/\ \A c \in CtxIds :
             Dispose(c)
             => LET Other(i) == i # c
                IN /\ contexts' = contexts
                   /\ evChan' = SelectSeq(evChan, Other)
                   /\ apiChan' = SelectSeq(apiChan, Other)
       /\ \A inv \in inflight' \ inflight : inv.ctx \in Range(apiChan)
       /\ \A id \in 1..Len(calls') :
             (id > Len(calls) /\ calls'[id].served)
             => \E i \in Range(apiChan) : contexts[i].name = calls'[id].component
       /\ sent' # sent
             => Len(Delivered) = Len(MatchingRegistered(sent'[Len(sent')]))]_vars

\* a disposed context keeps its endpoint and its listener; a call of the
\* endpoint found no handler and timed out, and a matching frame was sent and
\* delivered to nobody
C17_Witness ==
    \E c \in CtxIds :
        /\ c \notin Range(apiChan) /\ c \notin Range(evChan)
        /\ HasEndpoint(c, "getUser")
        /\ contexts[c].eventHandlers # <<>>
        /\ \E id \in CallIds :
              /\ calls[id].component = contexts[c].name
              /\ ~calls[id].served /\ TimedOut(id)
        /\ sent # <<>> /\ sent[1].component = contexts[c].name
        /\ invoked = <<>>

\* ---- claims on the example program ----
\* C13: in the example system the loop of notes ends with a call resolved
\* with the value of the getUser handler of users, and no call issued once
\* users has getUser registered is rejected: it resolves with that value.
C13_NotesReceivesUser ==
    /\ [](\A id \in CallIds :
            calls[id].served
            => \/ Pending(id)
               \/ /\ calls[id].state = "resolved"
                  /\ calls[id].value = [ctx |-> CtxOf("users"), id |-> id])
    /\ <>(NotesDone /\ calls[Len(calls)].value.ctx = CtxOf("users"))

C13_Witness ==
    /\ Len(calls) = 2
    /\ TimedOut(1) /\ ~calls[1].served
    /\ NotesDone
    /\ contexts[1].name = "notes"

TypeOK ==
    /\ Len(contexts) <= MaxCtx
    /\ Len(calls) <= MaxCalls
====
